---- MODULE Spec2Model ----
(***************************************************************************)
(* Model of lru_cache (src/cxx/lrucache/lru.hh): a fixed-capacity cache    *)
(* with a node pool of 2*capacity nodes, a LIFO free stack, a hash index,  *)
(* an evictable recency list (_lru), a pinned list (_unevicted_list), a    *)
(* logical clock, lazy promotion and batched tail eviction.                *)
(*                                                                         *)
(* Sequences model the two intrusive lists with the MRU head at position 1 *)
(* and the free stack with its top at the last position.  The hash index   *)
(* is the set of nodes linked into it; buckets and chains only decide      *)
(* speed and are not modelled.  Timestamps are uint64_t in the code; the   *)
(* clock is capped at MaxTime here, far below 2^64, so no wrap can occur.  *)
(*                                                                         *)
(* Undefined behaviour: allocate_node() on an empty free stack reads an    *)
(* indeterminate pointer.  The model chooses it nondeterministically: a    *)
(* pointer that cannot be written (the call faults, ub = "fault") or a     *)
(* pointer to any pool node (do_insert overwrites and relinks that node,   *)
(* ub = "wild_write").  make_room_for_insert() stepping before the head of *)
(* _lru sets ub = "list_underflow".  No call is modelled once ub is set.   *)
(***************************************************************************)
EXTENDS Integers, Sequences, FiniteSets

\* ---- bounds of the model -------------------------------------------------
MaxCapacity == 1
NumKeys == 3
NumValues == 2
MaxTime == 3
MaxL3Capacity == 2
MaxEvictableCapacity == 2
MaxTouchCapacity == 2

Capacities == 1..MaxCapacity
L3Capacities == 1..MaxL3Capacity
EvictableCapacities == 1..MaxEvictableCapacity
TouchCapacities == 1..MaxTouchCapacity
Keys == 1..NumKeys
Values == 1..NumValues

\* std::nullopt / nullptr
NoValue == 0
NoNode == 0

VARIABLES
    max_size,          \* _max_size
    node_pool,         \* _node_pool: node -> [key, value, access_time, promotion_time, evictable]
    free_nodes,        \* _free_nodes: stack of nodes, top last
    lru,               \* _lru: evictable list, MRU first
    index,             \* _index: set of nodes linked in the hash table
    current_time,      \* _current_time
    unevicted_list,    \* _unevicted_list: pinned list, MRU first
    nr_unevicted,      \* _nr_unevicted
    ub,                \* "none", or how undefined behaviour was executed
    last_op,           \* the latest public call, its lookup outcome and its result
    written,           \* key -> value argument of the latest write that took effect
    pc,                \* number of calls a scripted caller has made
    script             \* which scripted caller drives the cache, "none" if any caller

cacheVars == <<max_size, node_pool, free_nodes, lru, index, current_time,
               unevicted_list, nr_unevicted>>
vars == <<max_size, node_pool, free_nodes, lru, index, current_time,
          unevicted_list, nr_unevicted, ub, last_op, written, pc, script>>

\* ---- construction --------------------------------------------------------
soft_promotion_of(capacity) == capacity \div 2

Min(a, b) == IF a < b THEN a ELSE b

\* a batch of one node instead of min(3, ...)
batch_evict_size_of_one(capacity) == Min(1, capacity - soft_promotion_of(capacity))

batch_evict_size_of(capacity) == Min(3, capacity - soft_promotion_of(capacity))

soft_promotion == soft_promotion_of(max_size)
batch_evict_size == batch_evict_size_of(max_size)

Nodes == 1..(2 * max_size)

\* a value-initialized node_type
BlankNode == [key |-> 0, value |-> 0, access_time |-> 0, promotion_time |-> 0,
              evictable |-> FALSE]

\* the constructor pushes &pool.back() down to &pool.front(): node 1 is on top
InitialFreeNodes(capacity) == [i \in 1..(2 * capacity) |-> 2 * capacity + 1 - i]

\* ---- the cache as one value, so that private methods compose -------------
Cache == [pool |-> node_pool, free |-> free_nodes, lru |-> lru, index |-> index,
          time |-> current_time, unev |-> unevicted_list, nr |-> nr_unevicted,
          ub |-> ub]

Range(s) == {s[i] : i \in 1..Len(s)}

RECURSIVE Remove(_, _)
Remove(s, n) ==
    IF s = <<>> THEN <<>>
    ELSE IF Head(s) = n THEN Remove(Tail(s), n)
    ELSE <<Head(s)>> \o Remove(Tail(s), n)

\* list_hook.unlink(): takes the node out of whichever list holds it
unlink(c, n) == [c EXCEPT !.lru = Remove(@, n), !.unev = Remove(@, n)]

free_node(c, n) == [c EXCEPT !.free = Append(@, n)]

\* next_timestamp that returns the clock without advancing it
next_timestamp_stale(c) == c.time

next_timestamp(c) == c.time + 1

find_in_index(c, key) ==
    IF \E n \in c.index : c.pool[n].key = key
    THEN CHOOSE n \in c.index : c.pool[n].key = key
    ELSE NoNode

\* lru_touch whose threshold test is >= instead of >
lru_touch_ge(c, n) ==
    LET t == next_timestamp(c)
        c1 == [c EXCEPT !.time = t, !.pool[n].access_time = t]
    IN  IF t - c.pool[n].promotion_time >= soft_promotion /\ c.pool[n].evictable
        THEN LET c2 == unlink(c1, n)
             IN  [c2 EXCEPT !.lru = <<n>> \o @, !.pool[n].promotion_time = t]
        ELSE c1

lru_touch(c, n) ==
    LET t == next_timestamp(c)
        c1 == [c EXCEPT !.time = t, !.pool[n].access_time = t]
    IN  IF t - c.pool[n].promotion_time > soft_promotion /\ c.pool[n].evictable
        THEN LET c2 == unlink(c1, n)
             IN  [c2 EXCEPT !.lru = <<n>> \o @, !.pool[n].promotion_time = t]
        ELSE c1

RECURSIVE evict_tail(_, _)
evict_tail(c, i) ==
    IF i = 0 THEN c
    ELSE LET n == c.lru[Len(c.lru)]
             c1 == free_node([c EXCEPT !.index = @ \ {n}], n)
         IN  evict_tail([c1 EXCEPT !.lru = SubSeq(@, 1, Len(@) - 1)], i - 1)

\* make_room_for_insert without the final _lru.erase(iter, _lru.end())
make_room_without_erase(c) ==
    IF Len(c.free) + c.nr < max_size
    THEN IF Len(c.lru) < batch_evict_size
         THEN [c EXCEPT !.ub = "list_underflow"]
         ELSE [evict_tail(c, batch_evict_size) EXCEPT !.lru = c.lru]
    ELSE c

\* make_room_for_insert whose trigger is <= instead of <
make_room_trigger_le(c) ==
    IF Len(c.free) + c.nr <= max_size
    THEN IF Len(c.lru) < batch_evict_size
         THEN [c EXCEPT !.ub = "list_underflow"]
         ELSE evict_tail(c, batch_evict_size)
    ELSE c

\* make_room_for_insert that evicts only when the free stack is empty
make_room_when_empty(c) ==
    IF Len(c.free) = 0
    THEN IF Len(c.lru) < batch_evict_size
         THEN [c EXCEPT !.ub = "list_underflow"]
         ELSE evict_tail(c, batch_evict_size)
    ELSE c

make_room_for_insert(c) ==
    IF Len(c.free) + c.nr < max_size
    THEN IF Len(c.lru) < batch_evict_size
         THEN [c EXCEPT !.ub = "list_underflow"]
         ELSE evict_tail(c, batch_evict_size)
    ELSE c

\* wild is what top() reads when the stack is empty: NoNode stands for a
\* pointer that is not writable memory, a node for a pointer into the pool
allocate_node(c, wild) ==
    IF c.free = <<>>
    THEN [node |-> wild,
          cache |-> [c EXCEPT !.ub = IF wild = NoNode THEN "fault" ELSE "wild_write"]]
    ELSE [node |-> c.free[Len(c.free)],
          cache |-> [c EXCEPT !.free = SubSeq(@, 1, Len(@) - 1)]]

do_insert(c, key, value, evictable, wild) ==
    LET a == allocate_node(c, wild)
        n == a.node
        c1 == a.cache
        t == next_timestamp(c1)
    IN  IF c1.ub = "fault" THEN c1
        ELSE LET c2 == [c1 EXCEPT !.time = t, !.index = @ \cup {n},
                                  !.pool[n] = [key |-> key, value |-> value,
                                               access_time |-> t,
                                               promotion_time |-> t,
                                               evictable |-> evictable]]
             IN  IF evictable THEN [c2 EXCEPT !.lru = <<n>> \o @]
                 ELSE [c2 EXCEPT !.unev = <<n>> \o @]

\* insert_check whose probe never reports an existing key
insert_check_never_found(c, key) ==
    [cache |-> make_room_for_insert(c), node |-> NoNode]

\* insert_check: the cache after make_room_for_insert, and the node found
insert_check(c, key) ==
    LET c1 == make_room_for_insert(c)
    IN  [cache |-> c1, node |-> find_in_index(c1, key)]

\* get that runs the eviction check before its lookup, as the inserts do
get_making_room(c, key) ==
    LET chk == insert_check(c, key)
    IN  IF chk.node # NoNode
        THEN [cache |-> lru_touch(chk.cache, chk.node),
              result |-> chk.cache.pool[chk.node].value]
        ELSE [cache |-> chk.cache, result |-> NoValue]

get(c, key) ==
    LET node == find_in_index(c, key)
    IN  IF node # NoNode
        THEN [cache |-> lru_touch(c, node), result |-> c.pool[node].value]
        ELSE [cache |-> c, result |-> NoValue]

insert_on_missing(c, key, value, wild) ==
    LET chk == insert_check(c, key)
    IN  IF chk.cache.ub # "none" THEN chk.cache
        ELSE IF chk.node = NoNode
        THEN do_insert(chk.cache, key, value, TRUE, wild)
        ELSE chk.cache

\* insert that touches a resident key without storing the new value
insert_keeping_value(c, key, value, evictable, wild) ==
    LET chk == insert_check(c, key)
    IN  IF chk.cache.ub # "none" THEN chk.cache
        ELSE IF chk.node # NoNode
        THEN lru_touch(chk.cache, chk.node)
        ELSE LET c1 == do_insert(chk.cache, key, value, evictable, wild)
             IN  IF c1.ub = "fault" \/ evictable THEN c1
                 ELSE [c1 EXCEPT !.nr = @ + 1]

\* insert without the final ++_nr_unevicted
insert_not_counting_pinned(c, key, value, evictable, wild) ==
    LET chk == insert_check(c, key)
    IN  IF chk.cache.ub # "none" THEN chk.cache
        ELSE IF chk.node # NoNode
        THEN lru_touch([chk.cache EXCEPT !.pool[chk.node].value = value], chk.node)
        ELSE do_insert(chk.cache, key, value, evictable, wild)

insert(c, key, value, evictable, wild) ==
    LET chk == insert_check(c, key)
    IN  IF chk.cache.ub # "none" THEN chk.cache
        ELSE IF chk.node # NoNode
        THEN lru_touch([chk.cache EXCEPT !.pool[chk.node].value = value], chk.node)
        ELSE LET c1 == do_insert(chk.cache, key, value, evictable, wild)
             IN  IF c1.ub = "fault" \/ evictable THEN c1
                 ELSE [c1 EXCEPT !.nr = @ + 1]

\* ---- the state machine ---------------------------------------------------
Store(c) ==
    /\ node_pool' = c.pool
    /\ free_nodes' = c.free
    /\ lru' = c.lru
    /\ index' = c.index
    /\ current_time' = c.time
    /\ unevicted_list' = c.unev
    /\ nr_unevicted' = c.nr
    /\ ub' = c.ub
    /\ UNCHANGED max_size

\* what top() of the free stack can yield for an insertion of key
WildPointers(c, key) ==
    LET chk == insert_check(c, key)
    IN  IF chk.cache.ub = "none" /\ chk.node = NoNode /\ chk.cache.free = <<>>
        THEN {NoNode} \cup Nodes
        ELSE {NoNode}

Call(op, key, value, evictable, found, result) ==
    [op |-> op, key |-> key, value |-> value, evictable |-> evictable,
     found |-> found, result |-> result]

InitScript(capacities, scripts) ==
    /\ max_size \in capacities
    /\ script \in scripts
    /\ node_pool = [n \in Nodes |-> BlankNode]
    /\ free_nodes = InitialFreeNodes(max_size)
    /\ lru = <<>>
    /\ index = {}
    /\ current_time = 0
    /\ unevicted_list = <<>>
    /\ nr_unevicted = 0
    /\ ub = "none"
    /\ last_op = Call("new", 0, 0, FALSE, FALSE, NoValue)
    /\ written = [k \in {} |-> NoValue]
    /\ pc = 0

InitWith(capacities) == InitScript(capacities, {"none"})

Init == InitWith(Capacities)

\* written[key] := value, for keys of any caller
Write(key, value) ==
    [k \in (DOMAIN written) \cup {key} |-> IF k = key THEN value ELSE written[k]]

Get(key) ==
    /\ ub = "none"
    /\ LET r == get(Cache, key)
       IN  /\ Store(r.cache)
           /\ last_op' = Call("get", key, 0, FALSE, r.result # NoValue, r.result)
    /\ UNCHANGED written

InsertOnMissing(key, value) ==
    /\ ub = "none"
    /\ \E wild \in WildPointers(Cache, key) :
          Store(insert_on_missing(Cache, key, value, wild))
    /\ LET found == insert_check(Cache, key).node # NoNode
       IN  /\ last_op' = Call("insert_on_missing", key, value, TRUE, found, NoValue)
           /\ written' = IF found THEN written ELSE Write(key, value)

Insert(key, value, evictable) ==
    /\ ub = "none"
    /\ \E wild \in WildPointers(Cache, key) :
          Store(insert(Cache, key, value, evictable, wild))
    /\ LET found == insert_check(Cache, key).node # NoNode
       IN  last_op' = Call("insert", key, value, evictable, found, NoValue)
    /\ written' = Write(key, value)

\* any caller: any operation on any key, while the clock is below MaxTime
Next ==
    \/ \E key \in Keys :
          current_time < MaxTime /\ Get(key) /\ UNCHANGED <<pc, script>>
    \/ \E key \in Keys, value \in Values :
          current_time < MaxTime /\ InsertOnMissing(key, value) /\ UNCHANGED <<pc, script>>
    \/ \E key \in Keys, value \in Values, evictable \in BOOLEAN :
          current_time < MaxTime /\ Insert(key, value, evictable) /\ UNCHANGED <<pc, script>>

Spec == Init /\ [][Next]_vars

\* the caller of law L3: capacity pinned keys 1..capacity, then 2*capacity
\* evictable keys capacity+1..3*capacity, each inserted once, in order
L3InsertPinned ==
    /\ pc < max_size
    /\ \E value \in Values : Insert(pc + 1, value, FALSE)
    /\ pc' = pc + 1
    /\ UNCHANGED script

L3InsertEvictable ==
    /\ pc >= max_size
    /\ pc < 3 * max_size
    /\ \E value \in Values : Insert(pc + 1, value, TRUE)
    /\ pc' = pc + 1
    /\ UNCHANGED script

L3Init == InitWith(L3Capacities)

L3Next == L3InsertPinned \/ L3InsertEvictable

SpecL3 == L3Init /\ [][L3Next]_vars

\* a caller that uses only evictable operations
EvictableInit == InitWith(EvictableCapacities)

EvictableNext ==
    \/ \E key \in Keys :
          current_time < MaxTime /\ Get(key) /\ UNCHANGED <<pc, script>>
    \/ \E key \in Keys, value \in Values :
          current_time < MaxTime /\ InsertOnMissing(key, value)
             /\ UNCHANGED <<pc, script>>
    \/ \E key \in Keys, value \in Values :
          current_time < MaxTime /\ Insert(key, value, TRUE)
             /\ UNCHANGED <<pc, script>>

SpecEvictable == EvictableInit /\ [][EvictableNext]_vars

\* any caller, with one value only: where nodes are linked and how they are
\* stamped does not depend on the values stored
TouchValues == {1}

TouchInit == InitWith(TouchCapacities)

TouchNext ==
    \/ \E key \in Keys :
          current_time < MaxTime /\ Get(key) /\ UNCHANGED <<pc, script>>
    \/ \E key \in Keys, value \in TouchValues :
          current_time < MaxTime /\ InsertOnMissing(key, value)
             /\ UNCHANGED <<pc, script>>
    \/ \E key \in Keys, value \in TouchValues, evictable \in BOOLEAN :
          current_time < MaxTime /\ Insert(key, value, evictable)
             /\ UNCHANGED <<pc, script>>

SpecTouch == TouchInit /\ [][TouchNext]_vars

\* the callers of the three capacity-4 scenarios: a fixed list of calls each,
\* with the values left open
InsertCall(key, evictable) == [op |-> "insert", key |-> key, evictable |-> evictable]

GetCall(key) == [op |-> "get", key |-> key, evictable |-> FALSE]

\* S1: insert 1..5 evictable
\* S2: insert 1 pinned, then insert 1..8 evictable
\* S3: insert 1, 2 evictable, get(1) ten times, insert 3..6 evictable
Script(name) ==
    CASE name = "S1" -> [i \in 1..5 |-> InsertCall(i, TRUE)]
      [] name = "S2" -> <<InsertCall(1, FALSE)>> \o [i \in 1..8 |-> InsertCall(i, TRUE)]
      [] name = "S3" -> <<InsertCall(1, TRUE), InsertCall(2, TRUE)>>
                           \o [i \in 1..10 |-> GetCall(1)]
                           \o [i \in 1..4 |-> InsertCall(i + 2, TRUE)]
      [] OTHER -> <<>>

ScenarioCapacities == {4}

Scenarios == {"S1", "S2", "S3"}

ScenarioDone == pc = Len(Script(script))

ScenarioInsert ==
    /\ pc < Len(Script(script))
    /\ Script(script)[pc + 1].op = "insert"
    /\ \E value \in Values :
          Insert(Script(script)[pc + 1].key, value, Script(script)[pc + 1].evictable)
    /\ pc' = pc + 1
    /\ UNCHANGED script

ScenarioGet ==
    /\ pc < Len(Script(script))
    /\ Script(script)[pc + 1].op = "get"
    /\ Get(Script(script)[pc + 1].key)
    /\ pc' = pc + 1
    /\ UNCHANGED script

ScenarioInit == InitScript(ScenarioCapacities, Scenarios)

ScenarioNext == ScenarioInsert \/ ScenarioGet

SpecScenarios == ScenarioInit /\ [][ScenarioNext]_vars

\* ---- vocabulary of the properties ----------------------------------------
Resident(key) == find_in_index(Cache, key) # NoNode

OnLru(key) == Resident(key) /\ find_in_index(Cache, key) \in Range(lru)

OnUnevicted(key) == Resident(key) /\ find_in_index(Cache, key) \in Range(unevicted_list)

Lookup(key) == get(Cache, key).result

\* position of node n from the MRU head of list s, 0 if it is not on it
Position(s, n) ==
    IF n \in Range(s) THEN CHOOSE i \in 1..Len(s) : s[i] = n ELSE 0

\* the eviction trigger of make_room_for_insert
EvictionTrigger == Len(free_nodes) + nr_unevicted < max_size

\* ---- C1 .. C5 -----------------------------------------------------------
\* C1: insert_on_missing(k, v) called with k resident is a no-op: the resident
\* keys, every value and timestamp, both list orders, the free list, the
\* pinned count and current_time are the same after the call as before it.
InsertOnMissingPresentIsNoOp ==
    [][\A k \in Keys :
          (last_op'.op = "insert_on_missing" /\ last_op'.key = k /\ Resident(k))
             => UNCHANGED cacheVars]_vars

\* C2: insert(k, v, e) called with k resident never changes which recency
\* list holds k, whatever e is, and leaves the pinned count unchanged.
ClassStickiness ==
    [][\A k \in Keys :
          (last_op'.op = "insert" /\ last_op'.key = k /\ Resident(k))
             => /\ OnLru(k) => OnLru(k)'
                /\ OnUnevicted(k) => OnUnevicted(k)'
                /\ nr_unevicted' = nr_unevicted]_vars

\* C3: insert(k, v, false) of an absent key puts k on unevicted_list, a key on
\* unevicted_list stays resident there across every later operation, and the
\* nodes an operation takes out of the index all come from lru_list.
PinnedNeverDisplaced ==
    [][/\ \A k \in Keys :
             (last_op'.op = "insert" /\ last_op'.key = k /\ ~last_op'.evictable
                 /\ ~Resident(k)) => OnUnevicted(k)'
       /\ \A k \in Keys : OnUnevicted(k) => OnUnevicted(k)'
       /\ (index \ index') \subseteq Range(lru)]_vars

\* C4: the L3 caller (capacity pinned inserts, then 2*capacity evictable
\* inserts of distinct keys) never allocates from an empty free list, and
\* when it is done every pinned key is a hit.
L3PinnedPersistence ==
    /\ ub = "none"
    /\ pc = 3 * max_size => \A k \in 1..max_size : Lookup(k) # NoValue

\* C5: a get(k) issued right after insert(k, v, e) is a hit and returns v,
\* whether k was resident or absent before the insert.
ReadAfterWrite ==
    last_op.op = "insert" => Lookup(last_op.key) = last_op.value

\* ---- C6 .. C10 ----------------------------------------------------------
\* C6 (P1): for every resident key, get returns the value most recently
\* written for it: the value of the latest insert of that key, or of the
\* insert_on_missing that admitted it if no insert followed.
MostRecentlyWritten ==
    \A k \in Keys : Resident(k) => Lookup(k) = written[k]

\* an insert has just overwritten a resident key while another resident key
\* holds a different value
OverwriteWitness ==
    /\ ub = "none"
    /\ last_op.op = "insert" /\ last_op.found
    /\ \E k \in Keys : Resident(k) /\ Lookup(k) # last_op.value

\* C7 (L1): from a state where k is not resident, insert_on_missing(k, v1)
\* makes k readable with v1, and a directly following
\* insert_on_missing(k, v2) leaves get(k) a hit that returns v1.
IdempotentMissInsert ==
    [][\A k \in Keys :
          /\ (last_op'.op = "insert_on_missing" /\ last_op'.key = k /\ ~Resident(k))
                => Lookup(k)' = last_op'.value
          /\ (last_op.op = "insert_on_missing" /\ last_op.key = k /\ ~last_op.found
                /\ last_op'.op = "insert_on_missing" /\ last_op'.key = k)
                => Lookup(k)' = last_op.value]_vars

\* C8: get never inserts and never evicts; a miss changes nothing; a hit
\* changes only current_time, the hit node's access_time and promotion_time
\* and that node's position in lru_list.
GetFrame ==
    [][\A k \in Keys :
          (last_op'.op = "get" /\ last_op'.key = k) =>
             LET n == find_in_index(Cache, k)
             IN  /\ index' = index
                 /\ free_nodes' = free_nodes
                 /\ nr_unevicted' = nr_unevicted
                 /\ unevicted_list' = unevicted_list
                 /\ \A m \in Nodes :
                       /\ node_pool'[m].key = node_pool[m].key
                       /\ node_pool'[m].value = node_pool[m].value
                       /\ node_pool'[m].evictable = node_pool[m].evictable
                 /\ n = NoNode => UNCHANGED cacheVars
                 /\ n # NoNode =>
                       /\ \A m \in Nodes \ {n} : node_pool'[m] = node_pool[m]
                       /\ Remove(lru', n) = Remove(lru, n)
                       /\ Len(lru') = Len(lru)]_vars

\* a get has just hit a key and promoted its node past another node
GetPromotedWitness ==
    /\ last_op.op = "get" /\ last_op.found
    /\ Len(lru) >= 2
    /\ lru[1] = find_in_index(Cache, last_op.key)
    /\ node_pool[lru[1]].promotion_time = current_time
    /\ node_pool[lru[1]].promotion_time > node_pool[lru[2]].access_time

\* C9: every pool node is in exactly one of: the free list; the index and
\* lru_list with evictable = true; the index and unevicted_list with
\* evictable = false.  Hence the three lengths add up to 2 * capacity.
SlotPartition ==
    /\ \A n \in Nodes :
          LET isFree == n \in Range(free_nodes)
              isLru == n \in Range(lru)
              isUnev == n \in Range(unevicted_list)
          IN  \/ isFree /\ n \notin index /\ ~isLru /\ ~isUnev
              \/ ~isFree /\ n \in index /\ isLru /\ ~isUnev /\ node_pool[n].evictable
              \/ ~isFree /\ n \in index /\ ~isLru /\ isUnev /\ ~node_pool[n].evictable
    /\ Len(free_nodes) + Len(lru) + Len(unevicted_list) = 2 * max_size

\* C10 (P2): no two nodes of the index hold the same key.
KeyUniqueness ==
    \A n \in index, m \in index : node_pool[n].key = node_pool[m].key => n = m

\* an insert has just hit a resident key of the other class, after an eviction
InsertOtherClassWitness ==
    /\ ub = "none"
    /\ last_op.op = "insert" /\ last_op.found
    /\ node_pool[find_in_index(Cache, last_op.key)].evictable # last_op.evictable
    /\ \E k \in DOMAIN written : ~Resident(k)

Scenario1AsStated ==
    (script = "S1" /\ ScenarioDone) =>
        /\ ~Resident(1)
        /\ Lookup(5) = written[5]
        /\ \A k \in 2..5 : Resident(k)

\* C12 as amended: after insert 1..5 on capacity 4 nothing has been evicted:
\* keys 1..5 are all resident, get(1) is a hit and get(5) returns v5.
Scenario1NoEviction ==
    (script = "S1" /\ ScenarioDone) =>
        /\ Resident(1)
        /\ Lookup(5) = written[5]
        /\ \A k \in 2..5 : Resident(k)

Scenario1DoneWitness ==
    script = "S1" /\ ScenarioDone /\ Len(lru) = 5 /\ ub = "none"

\* C13 as stated (scenario 2): after insert(1, p, false) and insert 1..8
\* evictable on capacity 4, get(1) is a hit, key 1 is on the pinned list and
\* at most 4 of the keys 2..8 are resident.
Scenario2AsStated ==
    (script = "S2" /\ ScenarioDone) =>
        /\ Lookup(1) # NoValue
        /\ OnUnevicted(1)
        /\ Cardinality({k \in 2..8 : Resident(k)}) <= 4

\* C13 as amended: ... and at most 5 of the keys 2..8 are resident.
Scenario2AtMostFive ==
    (script = "S2" /\ ScenarioDone) =>
        /\ Lookup(1) # NoValue
        /\ OnUnevicted(1)
        /\ Cardinality({k \in 2..8 : Resident(k)}) <= 5

Scenario2DoneWitness ==
    /\ script = "S2" /\ ScenarioDone /\ ub = "none"
    /\ Cardinality({k \in 2..8 : Resident(k)}) = 5
    /\ ~Resident(2)

\* C14 as stated (scenario 3): after insert 1, 2, ten get(1) and insert 3..6
\* on capacity 4, key 1 is still resident and key 2 has been evicted.
Scenario3AsStated ==
    (script = "S3" /\ ScenarioDone) => Resident(1) /\ ~Resident(2)

\* C14 as amended: ... key 1 and key 2 have both been evicted.
Scenario3BothEvicted ==
    (script = "S3" /\ ScenarioDone) => ~Resident(1) /\ ~Resident(2)

Scenario3DoneWitness ==
    /\ script = "S3" /\ ScenarioDone /\ ub = "none"
    /\ \A k \in 3..6 : Resident(k)

\* C15: every live node has promotion_time <= access_time <= current_time and
\* no two live nodes share an access_time; current_time never decreases, and
\* every access_time a call assigns (a touch on a hit, an insertion) is the
\* clock advanced by one, hence larger than every timestamp assigned before.
TimestampState ==
    /\ \A n \in index :
          /\ node_pool[n].promotion_time <= node_pool[n].access_time
          /\ node_pool[n].access_time <= current_time
    /\ \A n \in index, m \in index :
          node_pool[n].access_time = node_pool[m].access_time => n = m

TimestampStep ==
    /\ current_time' >= current_time
    /\ \A n \in Nodes :
          node_pool'[n].access_time # node_pool[n].access_time
             => /\ current_time' = current_time + 1
                /\ node_pool'[n].access_time = current_time'
    /\ \A k \in Keys :
          (last_op'.key = k /\ Resident(k)'
              /\ \/ last_op'.op \in {"get", "insert"}
                 \/ last_op'.op = "insert_on_missing" /\ ~last_op'.found)
             => /\ current_time' = current_time + 1
                /\ node_pool'[find_in_index(Cache, k)'].access_time = current_time'

TimestampInvariant == []TimestampState /\ [][TimestampStep]_vars

\* a hit has just touched a node without promoting it while another node is live
TouchedNotPromotedWitness ==
    /\ last_op.found
    /\ \E n \in index, m \in index :
          /\ n # m
          /\ node_pool[n].access_time = current_time
          /\ node_pool[n].promotion_time < node_pool[n].access_time

\* C16: insert(k, v, e) with k resident only overwrites k's value and touches
\* k's node: the resident keys, the free list and every other node's fields
\* and relative list order are unchanged.
InsertPresentEvictsNothing ==
    [][\A k \in Keys :
          (last_op'.op = "insert" /\ last_op'.key = k /\ Resident(k)) =>
             LET n == find_in_index(Cache, k)
             IN  /\ index' = index
                 /\ free_nodes' = free_nodes
                 /\ {node_pool[m].key : m \in index}
                       = {node_pool'[m].key : m \in index'}
                 /\ \A m \in Nodes \ {n} : node_pool'[m] = node_pool[m]
                 /\ Remove(lru', n) = Remove(lru, n)
                 /\ Remove(unevicted_list', n) = Remove(unevicted_list, n)]_vars

\* C17: while the number of pinned entries has not exceeded capacity, no
\* allocation has found the free list empty.
PoolSafety ==
    Len(unevicted_list) <= max_size => ub = "none"

\* C18: a hit of get or insert stamps the node with the advanced clock; the
\* node moves to the head of lru_list with promotion_time := access_time iff
\* it is evictable and access_time - promotion_time > soft_promotion, else
\* its position and promotion_time stay; unevicted_list is never reordered;
\* a promotion is more than soft_promotion ticks after the previous one.
TouchRule ==
    [][\A k \in Keys :
          (last_op'.op \in {"get", "insert"} /\ last_op'.key = k /\ last_op'.found) =>
             LET n == find_in_index(Cache, k)
                 promote == /\ node_pool[n].evictable
                            /\ (current_time + 1) - node_pool[n].promotion_time
                                  > soft_promotion
             IN  /\ n # NoNode
                 /\ current_time' = current_time + 1
                 /\ node_pool'[n].access_time = current_time'
                 /\ promote => /\ lru'[1] = n
                               /\ node_pool'[n].promotion_time = current_time'
                 /\ ~promote => /\ node_pool'[n].promotion_time
                                      = node_pool[n].promotion_time
                                /\ Position(lru', n) = Position(lru, n)
                 /\ Position(unevicted_list', n) = Position(unevicted_list, n)
                 /\ unevicted_list' = unevicted_list
                 /\ node_pool'[n].promotion_time # node_pool[n].promotion_time
                       => node_pool'[n].promotion_time - node_pool[n].promotion_time
                             > soft_promotion]_vars

\* a hit has just touched an evictable node inside its promotion window: it
\* was stamped but not given a new promotion_time
TouchInsideWindowWitness ==
    /\ last_op.op \in {"get", "insert"} /\ last_op.found
    /\ LET n == find_in_index(Cache, last_op.key)
       IN  /\ node_pool[n].evictable
           /\ node_pool[n].access_time = current_time
           /\ node_pool[n].promotion_time < current_time
           /\ soft_promotion > 0

\* C19: whenever the eviction trigger holds, lru_list holds more than capacity
\* nodes, hence at least batch_evict_size; no eviction has stepped before the
\* head of lru_list; the pinned count equals |unevicted_list|.
EvictionNeverUnderflows ==
    /\ nr_unevicted = Len(unevicted_list)
    /\ ub # "list_underflow"
    /\ EvictionTrigger => /\ Len(lru) > max_size
                          /\ Len(lru) >= batch_evict_size

\* the trigger holds and lru_list is one node over capacity
TriggerWitness ==
    EvictionTrigger /\ ub = "none" /\ Len(lru) = max_size + 1

\* C20: lru_list is ordered by strictly decreasing promotion_time from head to
\* tail; a call made while the trigger holds evicts exactly batch_evict_size
\* keys, no key is evicted while a key with a smaller promotion_time stays on
\* lru_list, and an evicted key is a miss right after the call.
LruSorted ==
    \A i \in 1..(Len(lru) - 1) :
       node_pool[lru[i]].promotion_time > node_pool[lru[i + 1]].promotion_time

EvictionStep ==
    LET gone == {k \in Keys : OnLru(k) /\ ~Resident(k)'}
        pt(k) == node_pool[find_in_index(Cache, k)].promotion_time
    IN  /\ (EvictionTrigger /\ last_op'.op \in {"insert", "insert_on_missing"})
              => Cardinality(gone) = batch_evict_size
        /\ \A k \in gone, j \in Keys : (OnLru(j) /\ pt(j) < pt(k)) => j \in gone

EvictionDirection == []LruSorted /\ [][EvictionStep]_vars

====
